---- MODULE Spec2Model ----
(***************************************************************************)
(* Model lifecycle and VRAM resource manager of backend-ai-local (DAMO).   *)
(*                                                                         *)
(* ModelManager, VRAMManager and DownloadManager run on one asyncio event  *)
(* loop: a coroutine runs without interruption until it suspends (a lock   *)
(* it cannot take at once, asyncio.sleep, a future of a worker thread).    *)
(* cur is the call that holds the event loop, 0 when the loop is free to   *)
(* pick another ready call.  Transfers, engine loads and inference run on  *)
(* worker threads, in parallel with the loop.                              *)
(*                                                                         *)
(* Memory is counted in MB.                                                *)
(***************************************************************************)
EXTENDS Integers, Sequences, FiniteSets, TLC

\* ------------------------------------------------------------------ bounds
\* number of API calls (infer, purge_all, fetch_model) issued in one run
MaxCalls == 3
\* largest value the clock time.time() reaches
MaxTime == 2

\* ------------------------------------------------------- program constants
\* required_gb = 2.0, the fixed estimate of load_model
RequiredMB == 2048
\* settings.max_vram_gb = 8.0
MaxVramMB == 8192
\* settings.vram_threshold = 0.9 = ThresholdNum / ThresholdDen
ThresholdNum == 9
ThresholdDen == 10
\* ThreadPoolExecutor(max_workers=2) of the DownloadManager
MaxWorkers == 2

Calls == 1..MaxCalls
Ids == {"a", "b"}
\* TaskType; "text" and "image" stand for the engines that can load
Kinds == {"text", "image", "video"}
\* resident size an engine may turn out to have once loaded
Footprints == {2048, 6144}
\* MB a running inference holds on the device, in the workloads that count it
Activation == 6144

VARIABLES
    ncalls,           \* calls issued so far; call k is the k-th issued
    call,             \* call -> its operation and arguments
    pc,               \* call -> position in its coroutine
    cur,              \* the call running on the event loop, 0 if none
    res,              \* call -> outcome ("none" while in progress)
    lockHolder,       \* ModelManager._lock: the call holding it, 0 if free
    lockQ,            \* ModelManager._lock: FIFO of waiting calls
    registry,         \* ModelManager._model_registry: id -> ModelInfo ref, 0 absent
    info,             \* heap of ModelInfo objects; object k is made by call k
    lmOrder,          \* VRAMManager._loaded_models: keys in insertion order
    lmRef,            \* VRAMManager._loaded_models: id -> ModelInfo ref, 0 absent
    eng,              \* heap of engines; engine k is made by call k
    active,           \* DownloadManager._active_downloads
    disk,             \* cache directory of each id: "none", "partial", "complete"
    xthr,             \* call -> state of its transfer on the download executor
    lthr,             \* call -> state of its engine.load worker thread
    ithr,             \* call -> state of its engine.infer worker thread
    local,            \* call -> locals of the coroutine (info ref, engine used by infer)
    now,              \* last value time.time() returned
    seen,             \* names the calls issued so far have used
    work,             \* the workload of this run: what may be called, how often
    hist,             \* call in progress -> what it has done (observation only)
    vmOut             \* the last direct call of a VRAMManager method and its result

vars == <<ncalls, call, pc, cur, res, lockHolder, lockQ, registry, info, lmOrder,
          lmRef, eng, active, disk, xthr, lthr, ithr, local, now, seen, work, hist,
         vmOut>>

\* ------------------------------------------------------------ object shapes
\* ModelInfo before its constructor ran
NoInfo == [model_id |-> "", task_type |-> "", state |-> "unborn", vram_mb |-> 0,
           last_used |-> 0, disk_path |-> FALSE, engine_instance |-> 0]

\* BaseInferenceEngine.__init__: _loaded = False; mb is the memory its weights hold
NoEngine == [loaded |-> FALSE, mb |-> 0]

NoCall == [op |-> "none", id |-> "", kind |-> "", force |-> FALSE]

\* live: whether the engine was loaded when the infer thread was started
NoLocal == [info |-> 0, engine |-> 0, live |-> FALSE]

\* what a call in progress has done: xfer = it invoked a transfer; peerXfer = a
\* call inside download() of the same id at the same time invoked one; forced =
\* its first block released a LOADED model, whose engine was old
\* no direct VRAMManager call made
NoOut == [op |-> "none", id |-> "", required |-> 0,
          before |-> [order |-> <<>>, ref |-> [id \in Ids |-> 0],
                      eng |-> [c \in Calls |-> [loaded |-> FALSE, mb |-> 0]]],
          lastUsed |-> [id \in Ids |-> 0], released |-> <<>>, raised |-> FALSE,
          available |-> 0]

NoHist == [xfer |-> FALSE, peerXfer |-> FALSE, forced |-> FALSE, old |-> 0]

\* ModelInfo.touch / default_factory: time.time() never runs backwards here and
\* may return the value it returned last
TimeChoices == {t \in {now, now + 1} : t <= MaxTime}

\* ------------------------------------------------------------- gpu_utils
RECURSIVE SumLoaded(_, _)
SumLoaded(e, k) ==
    IF k = 0 THEN 0
    ELSE (IF e[k].loaded THEN e[k].mb ELSE 0) + SumLoaded(e, k - 1)

\* the tensors engine.infer puts on the device while it runs (inputs, outputs,
\* activations); they are freed when the call returns or raises
Held == work.act * Cardinality({c \in Calls : ithr[c] = "alloc"})

\* torch.cuda.memory_allocated: every tensor of the process on the device, the
\* weights of the loaded engines and what running inferences hold
GetVramUsageMB(e) == SumLoaded(e, MaxCalls) + Held

\* the device modelled has the capacity of the configured fallback
GetVramTotalMB == MaxVramMB

\* ----------------------------------------------------------- VRAMManager
\* a VRAMManager state vs is [order, ref, eng]: the dict and the engines it acts on

\* get_effective_limit_gb, times ThresholdDen
EffectiveLimitTimesDen ==
    IF GetVramTotalMB > 0 THEN GetVramTotalMB * ThresholdNum
    ELSE MaxVramMB * ThresholdNum

CanLoadModel(e, required) ==
    (GetVramUsageMB(e) + required) * ThresholdDen <= EffectiveLimitTimesDen

\* C16 mutant: limit - usage without the clamp
AvailableUnclamped(e) ==
    (EffectiveLimitTimesDen - GetVramUsageMB(e) * ThresholdDen) \div ThresholdDen

\* max(0, limit - usage) of the VRAMExhaustedError, in MB rounded down
AvailableMB(e) ==
    LET d == EffectiveLimitTimesDen - GetVramUsageMB(e) * ThresholdDen
    IN  IF d > 0 THEN d \div ThresholdDen ELSE 0

RemoveKey(order, id) == SelectSeq(order, LAMBDA x : x # id)

\* C11 mutant: an unload that leaves the engine on the device
UnloadKeepsWeights(e, k) == e

\* engine.unload(): _loaded = False, the weights are dropped
Unload(e, k) == [e EXCEPT ![k] = [@ EXCEPT !.loaded = FALSE, !.mb = 0]]

\* register_model: dict assignment keeps the position of a key already present
RegisterModel(vs, inf, r) ==
    LET id == inf[r].model_id
    IN  [vs EXCEPT !.order = IF vs.ref[id] = 0 THEN Append(@, id) ELSE @,
                   !.ref = [@ EXCEPT ![id] = r]]

\* an unregister_model that unloads the engine but leaves the entry in the dict
UnregisterKeepsEntry(vs, inf, id) ==
    LET r == vs.ref[id]
    IN  IF r = 0 \/ inf[r].engine_instance = 0 THEN vs
        ELSE [vs EXCEPT !.eng = Unload(vs.eng, inf[r].engine_instance)]

\* unregister_model: pop, then unload the engine the popped record points to
UnregisterModel(vs, inf, id) ==
    LET r == vs.ref[id]
    IN  IF r = 0 THEN vs
        ELSE [order |-> RemoveKey(vs.order, id),
              ref |-> [vs.ref EXCEPT ![id] = 0],
              eng |-> IF inf[r].engine_instance # 0
                      THEN Unload(vs.eng, inf[r].engine_instance)
                      ELSE vs.eng]

\* sorted(values, key=last_used) is stable: equal keys keep the dict order
RECURSIVE InsertStable(_, _, _)
InsertStable(s, x, key) ==
    IF s = <<>> THEN <<x>>
    ELSE IF key[s[Len(s)]] <= key[x] THEN Append(s, x)
    ELSE Append(InsertStable(SubSeq(s, 1, Len(s) - 1), x, key), s[Len(s)])

\* C15 mutant: the snapshot taken in dict order, not sorted
DictOrderModels(s, key) == s

RECURSIVE SortedModels(_, _)
SortedModels(s, key) ==
    IF s = <<>> THEN <<>>
    ELSE InsertStable(SortedModels(SubSeq(s, 1, Len(s) - 1), key), s[Len(s)], key)

LastUsedOf(vs, inf) ==
    [id \in Ids |-> IF vs.ref[id] = 0 THEN 0 ELSE inf[vs.ref[id]].last_used]

\* the for loop of evict_lru over the sorted snapshot
RECURSIVE EvictLoop(_, _, _, _)
EvictLoop(vs, inf, todo, required) ==
    IF todo = <<>> \/ CanLoadModel(vs.eng, required) THEN vs
    ELSE EvictLoop(UnregisterModel(vs, inf, Head(todo)), inf, Tail(todo), required)

\* an evict_lru that releases nothing and never raises
EvictNothing(vs, inf, required) == [vs |-> vs, raised |-> FALSE]

\* evict_lru: the state after the loop, and whether VRAMExhaustedError is raised
EvictLru(vs, inf, required) ==
    LET after == EvictLoop(vs, inf, SortedModels(vs.order, LastUsedOf(vs, inf)), required)
    IN  [vs |-> after, raised |-> ~CanLoadModel(after.eng, required)]

\* an update_access_time that touches every tracked record
UpdateAccessTimeOfAll(vs, inf, id, t) ==
    [k \in DOMAIN inf |->
        IF \E i \in DOMAIN vs.ref : vs.ref[i] = k THEN [inf[k] EXCEPT !.last_used = t]
        ELSE inf[k]]

\* update_access_time: touch the tracked record, if any
UpdateAccessTime(vs, inf, id, t) ==
    IF vs.ref[id] = 0 THEN inf
    ELSE [inf EXCEPT ![vs.ref[id]].last_used = t]

RECURSIVE UnregisterEach(_, _, _)
UnregisterEach(vs, inf, todo) ==
    IF todo = <<>> THEN vs
    ELSE UnregisterEach(UnregisterModel(vs, inf, Head(todo)), inf, Tail(todo))

\* VRAMManager.purge_all
VramPurgeAll(vs, inf) == UnregisterEach(vs, inf, vs.order)

\* get_vram_usage_percent, rounded down
GetVramUsagePercent(e) ==
    IF GetVramTotalMB = 0 THEN 0 ELSE (GetVramUsageMB(e) * 100) \div GetVramTotalMB

Vs == [order |-> lmOrder, ref |-> lmRef, eng |-> eng]

\* -------------------------------------------------------------- workloads
Ops == {"infer", "purge", "fetch"}

\* The runs explored: any MaxCalls - 1 calls, overlapping at will; a burst of
\* MaxCalls overlapping text requests and purges for one identifier; MaxCalls requests
\* and purges one after the other; MaxCalls - 1 overlapping text requests whose
\* inferences hold Activation MB while they run.
Workloads ==
    { [calls |-> MaxCalls - 1, flight |-> MaxCalls - 1, ids |-> Ids, kinds |-> Kinds,
       ops |-> Ops, act |-> 0],
      [calls |-> MaxCalls, flight |-> MaxCalls, ids |-> {"a"}, kinds |-> {"text"},
       ops |-> {"infer", "purge"}, act |-> 0],
      [calls |-> MaxCalls, flight |-> 1, ids |-> Ids, kinds |-> {"text"},
       ops |-> {"infer", "purge"}, act |-> 0],
      [calls |-> MaxCalls - 1, flight |-> MaxCalls - 1, ids |-> Ids, kinds |-> {"text"},
       ops |-> {"infer"}, act |-> Activation] }

\* ------------------------------------------------------------------ Init
Init ==
    /\ work \in Workloads
    /\ ncalls = 0
    /\ call = [c \in Calls |-> NoCall]
    /\ pc = [c \in Calls |-> "idle"]
    /\ cur = 0
    /\ res = [c \in Calls |-> "none"]
    /\ lockHolder = 0
    /\ lockQ = <<>>
    /\ registry = [id \in Ids |-> 0]
    /\ info = [c \in Calls |-> NoInfo]
    /\ lmOrder = <<>>
    /\ lmRef = [id \in Ids |-> 0]
    /\ eng = [c \in Calls |-> NoEngine]
    /\ active = {}
    /\ disk \in [Ids -> {"none", "complete"}]
    /\ \A id \in Ids \ work.ids : disk[id] = "none"
    /\ xthr = [c \in Calls |-> "none"]
    /\ lthr = [c \in Calls |-> "none"]
    /\ ithr = [c \in Calls |-> "none"]
    /\ local = [c \in Calls |-> NoLocal]
    /\ now = 0
    /\ seen = {}
    /\ hist = [c \in Calls |-> NoHist]
    /\ vmOut = NoOut

\* --------------------------------------------------------- asyncio.Lock
\* Lock.acquire: taken at once only if unlocked with no waiter queued before;
\* otherwise the caller queues and suspends
Acquire(c, held, wait) ==
    IF lockHolder = 0 /\ lockQ = <<>>
    THEN /\ lockHolder' = c
         /\ lockQ' = lockQ
         /\ pc' = [pc EXCEPT ![c] = held]
         /\ cur' = c
    ELSE /\ lockHolder' = lockHolder
         /\ lockQ' = Append(lockQ, c)
         /\ pc' = [pc EXCEPT ![c] = wait]
         /\ cur' = 0

\* a block that keeps the lock after its last statement
LockKept(c) == c

\* leaving "async with self._lock": the lock has no holder
LockExit(c) == 0

\* Lock.release wakes the first waiter; the woken waiter takes the lock when
\* the loop runs it
Wake(c) ==
    /\ cur = 0
    /\ pc[c] \in {"wait1", "wait2", "pg_wait"}
    /\ lockHolder = 0
    /\ lockQ # <<>>
    /\ Head(lockQ) = c
    /\ lockHolder' = c
    /\ lockQ' = Tail(lockQ)
    /\ pc' = [pc EXCEPT ![c] = CASE pc[c] = "wait1" -> "block1"
                                 [] pc[c] = "wait2" -> "block2"
                                 [] OTHER -> "pg_block"]
    /\ cur' = c
    /\ UNCHANGED <<ncalls, call, res, registry, info, lmOrder, lmRef, eng, active,
                   disk, xthr, lthr, ithr, local, now, seen, work, vmOut, hist>>

\* the call ends with this outcome; the loop goes on to build its response
Done(c, outcome) ==
    /\ pc' = [pc EXCEPT ![c] = "done"]
    /\ res' = [res EXCEPT ![c] = outcome]
    /\ cur' = c

\* calls that are inside load_model
InLoadModel(d) ==
    pc[d] \in {"wait1", "block1", "dl_enter", "dl_sleep", "dl_exec", "wait2",
               "block2", "loading"}
    /\ call[d].op = "infer"

\* calls that are suspended inside DownloadManager.download
InDownload(d) == pc[d] \in {"dl_sleep", "dl_exec"}

\* ------------------------------------------------ calls arriving at the API
\* Identifiers are opaque and interchangeable, and so are the two engine kinds
\* that can load: the first identifier a run requests is called "a", the first
\* loadable kind it uses "text".
IdInTurn(id) == id = "a" \/ "a" \in seen

KindInTurn(kind) == kind # "image" \/ "text" \in seen

\* the workload admits one more call of this operation
Admits(op) ==
    /\ op \in work.ops
    /\ ncalls < work.calls
    /\ Cardinality({d \in Calls : pc[d] \notin {"idle", "gone"}}) < work.flight

\* execute_task -> ModelManager.infer -> load_model, up to the first lock
StartInfer(id, kind, force) ==
    /\ cur = 0
    /\ Admits("infer")
    /\ id \in work.ids
    /\ kind \in work.kinds
    /\ IdInTurn(id)
    /\ KindInTurn(kind)
    /\ LET c == ncalls + 1
       IN  /\ ncalls' = c
           /\ call' = [call EXCEPT ![c] = [op |-> "infer", id |-> id, kind |-> kind,
                                           force |-> force]]
           /\ Acquire(c, "block1", "wait1")
    /\ seen' = seen \cup {id} \cup ({kind} \cap {"text"})
    /\ UNCHANGED <<res, registry, info, lmOrder, lmRef, eng, active, disk, xthr,
                   lthr, ithr, local, now, hist, work, vmOut>>

\* purge_models -> ModelManager.purge_all, up to the lock
StartPurge ==
    /\ cur = 0
    /\ Admits("purge")
    /\ LET c == ncalls + 1
       IN  /\ ncalls' = c
           /\ call' = [call EXCEPT ![c] = [NoCall EXCEPT !.op = "purge"]]
           /\ Acquire(c, "pg_block", "pg_wait")
    /\ UNCHANGED <<res, registry, info, lmOrder, lmRef, eng, active, disk, xthr,
                   lthr, ithr, local, now, seen, work, vmOut, hist>>

\* fetch_model -> DownloadManager.download
StartFetch(id) ==
    /\ cur = 0
    /\ Admits("fetch")
    /\ id \in work.ids
    /\ IdInTurn(id)
    /\ LET c == ncalls + 1
       IN  /\ ncalls' = c
           /\ call' = [call EXCEPT ![c] = [NoCall EXCEPT !.op = "fetch", !.id = id]]
           /\ pc' = [pc EXCEPT ![c] = "dl_enter"]
           /\ cur' = c
    /\ seen' = seen \cup {id}
    /\ UNCHANGED <<res, lockHolder, lockQ, registry, info, lmOrder, lmRef, eng,
                   active, disk, xthr, lthr, ithr, local, now, hist, work, vmOut>>

\* ModelInfo objects nothing refers to any more are garbage
LiveInfo(reg, ref, loc) ==
    ({reg[id] : id \in Ids} \cup {ref[id] : id \in Ids} \cup {loc[c].info : c \in Calls})
    \ {0}

\* the handler returns its response (or its HTTPException): the coroutine and
\* its locals are gone
Respond(c) ==
    /\ cur = c
    /\ pc[c] = "done"
    /\ pc' = [pc EXCEPT ![c] = "gone"]
    /\ call' = [call EXCEPT ![c] = NoCall]
    /\ res' = [res EXCEPT ![c] = "none"]
    /\ hist' = [hist EXCEPT ![c] = NoHist]
    /\ local' = [local EXCEPT ![c] = NoLocal]
    /\ info' = [k \in Calls |-> IF k \in LiveInfo(registry, lmRef, local')
                                THEN info[k] ELSE NoInfo]
    /\ cur' = 0
    /\ UNCHANGED <<ncalls, lockHolder, lockQ, registry, lmOrder, lmRef, eng, active,
                   disk, xthr, lthr, ithr, now, seen, work, vmOut>>

\* a first block that never returns the existing record
FastPathNever(existing, force) == FALSE

\* -------------------------------------------------- ModelManager.load_model
\* the fast-path test of load_model
FastPath(existing, force) ==
    existing # 0 /\ info[existing].state = "loaded" /\ ~force

\* the first `async with self._lock` block.  On the fast path load_model returns
\* and infer hands info.engine_instance.infer to a worker thread at once.
Block1(c) ==
    /\ cur = c
    /\ pc[c] = "block1"
    /\ LET id == call[c].id
           existing == registry[id]
       IN  \E t \in TimeChoices :
             /\ now' = t
             /\ lockHolder' = LockExit(c)
             /\ IF FastPath(existing, call[c].force)
                THEN /\ info' = UpdateAccessTime(Vs, [info EXCEPT ![existing].last_used = t],
                                                 id, t)
                     /\ local' = [local EXCEPT ![c] =
                                     [info |-> existing,
                                      engine |-> info[existing].engine_instance,
                                      live |-> eng[info[existing].engine_instance].loaded]]
                     /\ ithr' = [ithr EXCEPT ![c] = "running"]
                     /\ pc' = [pc EXCEPT ![c] = "inferring"]
                     /\ cur' = 0
                     /\ UNCHANGED <<registry, lmOrder, lmRef, eng, hist>>
                ELSE LET release == call[c].force /\ existing # 0
                                    /\ info[existing].state = "loaded"
                         vs1 == IF release THEN UnregisterModel(Vs, info, id) ELSE Vs
                     IN  /\ lmOrder' = vs1.order
                         /\ lmRef' = vs1.ref
                         /\ eng' = vs1.eng
                         /\ info' = [info EXCEPT ![c] =
                                        [model_id |-> id, task_type |-> call[c].kind,
                                         state |-> "downloading", vram_mb |-> 0,
                                         last_used |-> t, disk_path |-> FALSE,
                                         engine_instance |-> 0]]
                         /\ registry' = [registry EXCEPT ![id] = c]
                         /\ pc' = [pc EXCEPT ![c] = "dl_enter"]
                         /\ cur' = c
                         /\ hist' = [hist EXCEPT ![c].forced = release,
                                                 ![c].old = IF release
                                                            THEN info[existing].engine_instance
                                                            ELSE 0]
                         /\ UNCHANGED <<local, ithr>>
    /\ UNCHANGED <<ncalls, call, res, lockQ, active, disk, xthr, lthr, seen, work, vmOut>>

\* ------------------------------------------------------- DownloadManager
\* is_cached: the directory exists and holds at least one entry
IsCached(id) == disk[id] # "none"

\* C1 mutant: a download() that never notices a transfer in flight
DownloadInProgressUnnoticed(id) == FALSE

\* `model_id in self._active_downloads`
DownloadInProgress(id) == id \in active

\* download() hands its path back: fetch_model is done, load_model goes on to
\* its second `async with self._lock`
DownloadReturns(c) ==
    IF call[c].op = "fetch"
    THEN /\ Done(c, "ok")
         /\ UNCHANGED <<lockHolder, lockQ>>
    ELSE /\ Acquire(c, "block2", "wait2")
         /\ UNCHANGED res

\* the calls this one meets inside download() of the same id
Meets(c) == {d \in Calls \ {c} : InDownload(d) /\ call[d].id = call[c].id}

\* download(), from its entry to its first suspension or its return
DlEnter(c) ==
    /\ cur = c
    /\ pc[c] = "dl_enter"
    /\ LET id == call[c].id
           peer == \E d \in Meets(c) : hist[d].xfer
       IN  IF IsCached(id)
           THEN /\ DownloadReturns(c)
                /\ UNCHANGED <<active, xthr, hist>>
           ELSE IF DownloadInProgress(id)
           THEN /\ pc' = [pc EXCEPT ![c] = "dl_sleep"]
                /\ cur' = 0
                /\ hist' = [hist EXCEPT ![c].peerXfer = peer]
                /\ UNCHANGED <<active, xthr, res, lockHolder, lockQ>>
           ELSE /\ active' = active \cup {id}
                /\ xthr' = [xthr EXCEPT ![c] = "queued"]
                /\ pc' = [pc EXCEPT ![c] = "dl_exec"]
                /\ cur' = 0
                /\ hist' = [d \in Calls |->
                              IF d = c THEN [hist[d] EXCEPT !.xfer = TRUE, !.peerXfer = peer]
                              ELSE IF d \in Meets(c) THEN [hist[d] EXCEPT !.peerXfer = TRUE]
                              ELSE hist[d]]
                /\ UNCHANGED <<res, lockHolder, lockQ>>
    /\ UNCHANGED <<ncalls, call, registry, info, lmOrder, lmRef, eng, disk, lthr,
                   ithr, local, now, seen, work, vmOut>>

\* a waiter's asyncio.sleep(1) ends with the id no longer in flight: it returns
\* the path (a sleep that ends with the id still in flight changes nothing)
DlSleepWake(c) ==
    /\ cur = 0
    /\ pc[c] = "dl_sleep"
    /\ ~DownloadInProgress(call[c].id)
    /\ DownloadReturns(c)
    /\ UNCHANGED <<ncalls, call, registry, info, lmOrder, lmRef, eng, active, disk,
                   xthr, lthr, ithr, local, now, seen, work, vmOut, hist>>

\* A worker thread's step commutes with the segment the loop is running (the
\* segment reads nothing a worker may write meanwhile), so workers are
\* interleaved between segments only: cur = 0.

\* the executor has max_workers threads: a submitted transfer starts when one is free
DlThreadStart(c) ==
    /\ cur = 0
    /\ xthr[c] = "queued"
    /\ Cardinality({d \in Calls : xthr[d] = "running"}) < MaxWorkers
    /\ xthr' = [xthr EXCEPT ![c] = "running"]
    /\ UNCHANGED <<ncalls, call, pc, cur, res, lockHolder, lockQ, registry, info,
                   lmOrder, lmRef, eng, active, disk, lthr, ithr, local, now, seen, work, vmOut,
                   hist>>

\* snapshot_download writes the first files into local_dir
DlThreadWrite(c) ==
    /\ cur = 0
    /\ xthr[c] = "running"
    /\ disk[call[c].id] = "none"
    /\ disk' = [disk EXCEPT ![call[c].id] = "partial"]
    /\ UNCHANGED <<ncalls, call, pc, cur, res, lockHolder, lockQ, registry, info,
                   lmOrder, lmRef, eng, active, xthr, lthr, ithr, local, now, seen, work, vmOut,
                   hist>>

\* _download_sync returns str(local_dir)
DlThreadOk(c) ==
    /\ cur = 0
    /\ xthr[c] = "running"
    /\ xthr' = [xthr EXCEPT ![c] = "ok"]
    /\ disk' = [disk EXCEPT ![call[c].id] = "complete"]
    /\ UNCHANGED <<ncalls, call, pc, cur, res, lockHolder, lockQ, registry, info,
                   lmOrder, lmRef, eng, active, lthr, ithr, local, now, seen, work, vmOut, hist>>

\* _download_sync raises DownloadError; what was written stays on disk
DlThreadFail(c) ==
    /\ cur = 0
    /\ xthr[c] = "running"
    /\ xthr' = [xthr EXCEPT ![c] = "fail"]
    /\ UNCHANGED <<ncalls, call, pc, cur, res, lockHolder, lockQ, registry, info,
                   lmOrder, lmRef, eng, active, disk, lthr, ithr, local, now, seen, work, vmOut,
                   hist>>

\* a discard that is skipped when the transfer raised
DiscardOnSuccess(s, id, ok) == IF ok THEN s \ {id} ELSE s

\* finally: _active_downloads.discard(model_id), whether the transfer returned
\* or raised
FinallyDiscard(s, id, ok) == s \ {id}

\* the fetcher resumes after run_in_executor: finally discards the id, then the
\* path is returned or DownloadError propagates out of load_model / fetch_model
DlExecResume(c) ==
    /\ cur = 0
    /\ pc[c] = "dl_exec"
    /\ xthr[c] \in {"ok", "fail"}
    /\ active' = FinallyDiscard(active, call[c].id, xthr[c] = "ok")
    /\ xthr' = [xthr EXCEPT ![c] = "none"]
    /\ IF xthr[c] = "ok"
       THEN DownloadReturns(c)
       ELSE /\ Done(c, "DownloadError")
            /\ UNCHANGED <<lockHolder, lockQ>>
    /\ UNCHANGED <<ncalls, call, registry, info, lmOrder, lmRef, eng, disk, lthr,
                   ithr, local, now, seen, work, vmOut, hist>>

\* --------------------------------------- load_model, second locked block
\* get_engine_class: ENGINE_MAP has an engine class for every TaskType
GetEngineClass(kind) == kind

\* from the lock to `await asyncio.to_thread(engine.load, disk_path)`, or to the
\* exception that ends the call: KeyError of self._model_registry[model_id],
\* VRAMExhaustedError of evict_lru.  `async with` releases the lock on the way out.
Block2(c) ==
    /\ cur = c
    /\ pc[c] = "block2"
    /\ LET id == call[c].id
           r == registry[id]
       IN  IF r = 0
           THEN /\ Done(c, "KeyError")
                /\ lockHolder' = LockExit(c)
                /\ UNCHANGED <<info, lmOrder, lmRef, eng, lthr, local>>
           ELSE LET inf1 == [info EXCEPT ![r].disk_path = TRUE, ![r].state = "on_disk"]
                    fits == CanLoadModel(eng, RequiredMB)
                    ev == IF fits THEN [vs |-> Vs, raised |-> FALSE]
                          ELSE EvictLru(Vs, inf1, RequiredMB)
                IN  /\ info' = inf1
                    /\ lmOrder' = ev.vs.order
                    /\ lmRef' = ev.vs.ref
                    /\ eng' = ev.vs.eng
                    /\ IF ev.raised
                       THEN /\ Done(c, "VRAMExhaustedError")
                            /\ lockHolder' = LockExit(c)
                            /\ UNCHANGED <<lthr, local>>
                       ELSE /\ pc' = [pc EXCEPT ![c] = "loading"]
                            /\ lthr' = [lthr EXCEPT ![c] = "running"]
                            /\ local' = [local EXCEPT ![c].info = r]
                            /\ cur' = 0
                            /\ UNCHANGED <<res, lockHolder>>
    /\ UNCHANGED <<ncalls, call, lockQ, registry, active, disk, xthr, ithr, now, seen, work, vmOut,
                   hist>>

\* engine.load(disk_path) succeeds on its worker thread: only an engine class
\* that implements load, and only from a complete artifact
LoadThreadOk(c) ==
    /\ cur = 0
    /\ lthr[c] = "running"
    /\ GetEngineClass(call[c].kind) # "video"
    /\ disk[call[c].id] = "complete"
    /\ \E mb \in Footprints :
         eng' = [eng EXCEPT ![c] = [loaded |-> TRUE, mb |-> mb]]
    /\ lthr' = [lthr EXCEPT ![c] = "ok"]
    /\ UNCHANGED <<ncalls, call, pc, cur, res, lockHolder, lockQ, registry, info,
                   lmOrder, lmRef, active, disk, xthr, ithr, local, now, seen, work, vmOut, hist>>

\* engine.load raises (VideoEngine.load always does)
LoadThreadFail(c) ==
    /\ cur = 0
    /\ lthr[c] = "running"
    /\ lthr' = [lthr EXCEPT ![c] = "fail"]
    /\ UNCHANGED <<ncalls, call, pc, cur, res, lockHolder, lockQ, registry, info,
                   lmOrder, lmRef, eng, active, disk, xthr, ithr, local, now, seen, work, vmOut,
                   hist>>

\* C20 mutant: an engine that reports no memory
GetVramUsageMbZero(e, k) == 0

\* engine.get_vram_usage_mb()
GetVramUsageMb(e, k) == IF e[k].loaded THEN e[k].mb ELSE 0

\* C13 mutant: an except branch that leaves the record as it was
LoadFailedUnmarked(inf, r) == inf

\* the except branch of load_model: info.state = FAILED, then the error is re-raised
LoadFailed(inf, r) == [inf EXCEPT ![r].state = "failed"]

\* load_model resumes after the load: the except branch, or the bookkeeping and
\* the return, after which infer starts engine_instance.infer on a worker thread
LoadResume(c) ==
    /\ cur = 0
    /\ pc[c] = "loading"
    /\ lthr[c] \in {"ok", "fail"}
    /\ lthr' = [lthr EXCEPT ![c] = "none"]
    /\ lockHolder' = LockExit(c)
    /\ LET r == local[c].info
       IN  IF lthr[c] = "fail"
           THEN /\ info' = LoadFailed(info, r)
                /\ Done(c, IF call[c].kind = "video" THEN "NotImplementedError"
                           ELSE "LoadError")
                /\ UNCHANGED <<lmOrder, lmRef, ithr, local, now>>
           ELSE \E t \in TimeChoices :
                  LET inf1 == [info EXCEPT ![r].engine_instance = c,
                                           ![r].vram_mb = GetVramUsageMb(eng, c),
                                           ![r].state = "loaded",
                                           ![r].last_used = t]
                      vs1 == RegisterModel(Vs, inf1, r)
                  IN  /\ now' = t
                      /\ info' = inf1
                      /\ lmOrder' = vs1.order
                      /\ lmRef' = vs1.ref
                      /\ local' = [local EXCEPT ![c].engine = c,
                                                ![c].live = eng[c].loaded]
                      /\ ithr' = [ithr EXCEPT ![c] = "running"]
                      /\ pc' = [pc EXCEPT ![c] = "inferring"]
                      /\ cur' = 0
                      /\ UNCHANGED res
    /\ UNCHANGED <<ncalls, call, lockQ, registry, eng, active, disk, xthr, seen, work, vmOut, hist>>

\* ------------------------------------------------------ ModelManager.infer
\* engine.infer puts its tensors on the device, if they fit
InferThreadAlloc(c) ==
    /\ cur = 0
    /\ ithr[c] = "running"
    /\ local[c].live
    /\ work.act > 0
    /\ GetVramUsageMB(eng) + work.act <= GetVramTotalMB
    /\ ithr' = [ithr EXCEPT ![c] = "alloc"]
    /\ UNCHANGED <<ncalls, call, pc, cur, res, lockHolder, lockQ, registry, info,
                   lmOrder, lmRef, eng, active, disk, xthr, lthr, local, now, seen, work, vmOut,
                   hist>>

\* engine.infer returns on its worker thread; an engine that was already
\* unloaded when the thread started (its model is None) cannot
InferThreadOk(c) ==
    /\ cur = 0
    /\ ithr[c] = (IF work.act > 0 THEN "alloc" ELSE "running")
    /\ local[c].live
    /\ ithr' = [ithr EXCEPT ![c] = "ok"]
    /\ UNCHANGED <<ncalls, call, pc, cur, res, lockHolder, lockQ, registry, info,
                   lmOrder, lmRef, eng, active, disk, xthr, lthr, local, now, seen, work, vmOut,
                   hist>>

\* engine.infer raises
InferThreadFail(c) ==
    /\ cur = 0
    /\ ithr[c] \in {"running", "alloc"}
    /\ ithr' = [ithr EXCEPT ![c] = "fail"]
    /\ UNCHANGED <<ncalls, call, pc, cur, res, lockHolder, lockQ, registry, info,
                   lmOrder, lmRef, eng, active, disk, xthr, lthr, local, now, seen, work, vmOut,
                   hist>>

\* C19 mutant: a failed inference marks the record FAILED
InferFailedMarks(inf, r) == [inf EXCEPT ![r].state = "failed"]

\* engine.infer raised: infer has no handler, the exception leaves it before
\* update_access_time and no record is written
InferFailed(inf, r) == inf

\* infer resumes: update_access_time and the result, or the exception
InferResume(c) ==
    /\ cur = 0
    /\ pc[c] = "inferring"
    /\ ithr[c] \in {"ok", "fail"}
    /\ ithr' = [ithr EXCEPT ![c] = "none"]
    /\ IF ithr[c] = "ok"
       THEN \E t \in TimeChoices :
              /\ now' = t
              /\ info' = UpdateAccessTime(Vs, info, call[c].id, t)
              /\ Done(c, "ok")
       ELSE /\ Done(c, "InferError")
            /\ info' = InferFailed(info, local[c].info)
            /\ UNCHANGED now
    /\ UNCHANGED <<ncalls, call, lockHolder, lockQ, registry, lmOrder, lmRef, eng,
                   active, disk, xthr, lthr, local, seen, work, vmOut, hist>>

\* -------------------------------------------------- ModelManager.purge_all
PurgeBlock(c) ==
    /\ cur = c
    /\ pc[c] = "pg_block"
    /\ LET vs1 == VramPurgeAll(Vs, info)
       IN  /\ lmOrder' = vs1.order
           /\ lmRef' = vs1.ref
           /\ eng' = vs1.eng
    /\ registry' = [id \in Ids |-> 0]
    /\ lockHolder' = LockExit(c)
    /\ Done(c, "ok")
    /\ UNCHANGED <<ncalls, call, lockQ, info, active, disk, xthr, lthr, ithr, local,
                   now, seen, work, vmOut, hist>>

\* a listing that reports every identifier, whether its directory exists or not
ListEveryModel ==
    {[model_id |-> id, task_type |-> "absent", state |-> "on_disk", vram_mb |-> -1,
      last_used |-> -1] : id \in Ids}

\* ------------------------------------------- ModelManager.get_all_model_status
\* list_cached_models: one entry per directory of the cache, state ON_DISK; the
\* keys a cached-only entry does not have are "absent" / -1 here
ListCachedModels ==
    {[model_id |-> id, task_type |-> "absent", state |-> "on_disk", vram_mb |-> -1,
      last_used |-> -1] : id \in {i \in Ids : disk[i] # "none"}}

\* a merge that appends every cached model, in the registry or not
GetAllModelStatusUnfiltered ==
    {[model_id |-> info[registry[id]].model_id,
      task_type |-> info[registry[id]].task_type,
      state |-> info[registry[id]].state,
      vram_mb |-> info[registry[id]].vram_mb,
      last_used |-> info[registry[id]].last_used] : id \in {i \in Ids : registry[i] # 0}}
    \cup ListCachedModels

\* the registry's records, then the cached models the registry does not hold
GetAllModelStatus ==
    {[model_id |-> info[registry[id]].model_id,
      task_type |-> info[registry[id]].task_type,
      state |-> info[registry[id]].state,
      vram_mb |-> info[registry[id]].vram_mb,
      last_used |-> info[registry[id]].last_used] : id \in {i \in Ids : registry[i] # 0}}
    \cup {cached \in ListCachedModels : registry[cached.model_id] = 0}

\* ModelStatusItem(**s): a key the dict lacks takes the default of the schema,
\* vram_mb 0.0, task_type and last_used None ("absent" and -1 here)
ModelStatusItem(s) == [s EXCEPT !.vram_mb = IF @ = -1 THEN 0 ELSE @]

\* get_models_status: the items of the response
GetModelsStatus == {ModelStatusItem(s) : s \in GetAllModelStatus}

\* ------------------------------------------------------------------- Next
Next ==
    \/ \E id \in Ids, kind \in Kinds, force \in BOOLEAN : StartInfer(id, kind, force)
    \/ StartPurge
    \/ \E id \in Ids : StartFetch(id)
    \/ \E c \in Calls : Respond(c)
    \/ \E c \in Calls : Wake(c)
    \/ \E c \in Calls : Block1(c)
    \/ \E c \in Calls : DlEnter(c)
    \/ \E c \in Calls : DlSleepWake(c)
    \/ \E c \in Calls : DlThreadStart(c)
    \/ \E c \in Calls : DlThreadWrite(c)
    \/ \E c \in Calls : DlThreadOk(c)
    \/ \E c \in Calls : DlThreadFail(c)
    \/ \E c \in Calls : DlExecResume(c)
    \/ \E c \in Calls : Block2(c)
    \/ \E c \in Calls : LoadThreadOk(c)
    \/ \E c \in Calls : LoadThreadFail(c)
    \/ \E c \in Calls : LoadResume(c)
    \/ \E c \in Calls : InferThreadAlloc(c)
    \/ \E c \in Calls : InferThreadOk(c)
    \/ \E c \in Calls : InferThreadFail(c)
    \/ \E c \in Calls : InferResume(c)
    \/ \E c \in Calls : PurgeBlock(c)

Spec == Init /\ [][Next]_vars

\* ------------------------------------------------------------- scheduling
\* the steps of call c once it has been issued
Progress(c) ==
    \/ Respond(c) \/ Wake(c) \/ Block1(c) \/ DlEnter(c) \/ DlSleepWake(c)
    \/ DlThreadStart(c) \/ DlThreadWrite(c) \/ DlThreadOk(c) \/ DlThreadFail(c)
    \/ DlExecResume(c) \/ Block2(c) \/ LoadThreadOk(c) \/ LoadThreadFail(c)
    \/ LoadResume(c) \/ InferThreadAlloc(c) \/ InferThreadOk(c) \/ InferThreadFail(c)
    \/ InferResume(c) \/ PurgeBlock(c)

\* The event loop runs every task that is ready and every worker thread
\* finishes what it runs; nothing obliges a client to issue a call.
Fairness == \A c \in Calls : WF_vars(Progress(c))

\* the workloads of fewer than MaxCalls calls
InitLive == Init /\ work.calls < MaxCalls

SpecLive == InitLive /\ [][Next]_vars /\ Fairness

\* ------------------------------------------------- VRAMManager on its own
\* The VRAMManager driven directly, as tests/test_core/test_vram_manager.py
\* drives it: LOADED records with engines are made, some of them registered,
\* the device holds what the engines and other tensors of the process hold,
\* and the methods are called one after the other.

\* required_gb of can_load_model / evict_lru, in MB
VmRequired == {1024, 2048, 3072}

\* the identifier of the k-th record made
VmIdOf(k) == IF k % 2 = 1 THEN "a" ELSE "b"

\* _make_model_info: a LOADED record with an engine
VmRecord(k, mb, lu) ==
    [model_id |-> VmIdOf(k), task_type |-> "text", state |-> "loaded", vram_mb |-> mb,
     last_used |-> lu, disk_path |-> TRUE, engine_instance |-> k]

\* the insertion orders a dict with these keys can have
VmOrders(S) ==
    {o \in [1..Cardinality(S) -> S] : \A i, j \in 1..Cardinality(S) : i # j => o[i] # o[j]}

InitVram ==
    /\ work \in {[calls |-> MaxCalls, flight |-> 0, ids |-> {}, kinds |-> {}, ops |-> {},
                  act |-> h] : h \in {0, Activation, MaxVramMB}}
    /\ ithr = [c \in Calls |-> IF c = 1 THEN "alloc" ELSE "none"]
    /\ eng \in [Calls -> {NoEngine} \cup {[loaded |-> TRUE, mb |-> mb] : mb \in Footprints}]
    /\ SumLoaded(eng, MaxCalls) + Held <= GetVramTotalMB
    /\ now = MaxTime
    /\ info \in [Calls -> {NoInfo} \cup {VmRecord(k, mb, lu) :
                                           k \in Calls, mb \in Footprints, lu \in 0..MaxTime}]
    /\ \A k \in Calls :
         IF eng[k].loaded
         THEN info[k].engine_instance = k /\ info[k].vram_mb = eng[k].mb
         ELSE info[k] = NoInfo
    /\ lmRef \in [Ids -> {0} \cup Calls]
    /\ \A id \in Ids : lmRef[id] # 0 => info[lmRef[id]].model_id = id
    /\ lmOrder \in VmOrders({id \in Ids : lmRef[id] # 0})
    /\ ncalls = 0
    /\ call = [c \in Calls |-> NoCall]
    /\ pc = [c \in Calls |-> "idle"]
    /\ cur = 0
    /\ res = [c \in Calls |-> "none"]
    /\ lockHolder = 0
    /\ lockQ = <<>>
    /\ registry = [id \in Ids |-> 0]
    /\ active = {}
    /\ disk = [id \in Ids |-> "none"]
    /\ xthr = [c \in Calls |-> "none"]
    /\ lthr = [c \in Calls |-> "none"]
    /\ local = [c \in Calls |-> NoLocal]
    /\ seen = {}
    /\ hist = [c \in Calls |-> NoHist]
    /\ vmOut = NoOut

\* the identifiers evict_lru releases, in the order it releases them
RECURSIVE EvictReleased(_, _, _, _)
EvictReleased(vs, inf, todo, required) ==
    IF todo = <<>> \/ CanLoadModel(vs.eng, required) THEN <<>>
    ELSE <<Head(todo)>>
         \o EvictReleased(UnregisterModel(vs, inf, Head(todo)), inf, Tail(todo), required)

\* what a direct call leaves in vmOut
VmOut(op, required, released, raised, available) ==
    [op |-> op, id |-> "", required |-> required, before |-> Vs, lastUsed |-> LastUsedOf(Vs, info),
     released |-> released, raised |-> raised, available |-> available]

VmRegister(r) ==
    /\ ncalls < work.calls
    /\ info[r] # NoInfo
    /\ LET vs1 == RegisterModel(Vs, info, r)
       IN  /\ lmOrder' = vs1.order
           /\ lmRef' = vs1.ref
    /\ vmOut' = VmOut("register", 0, <<>>, FALSE, 0)
    /\ ncalls' = ncalls + 1
    /\ UNCHANGED <<call, pc, cur, res, lockHolder, lockQ, registry, info, eng, active,
                   disk, xthr, lthr, ithr, local, now, seen, work, hist>>

\* the engines whose unload() one call of unregister_model invokes, by the
\* identifier of their model
UnloadCalls(vs, inf, id) ==
    IF vs.ref[id] # 0 /\ inf[vs.ref[id]].engine_instance # 0 THEN <<id>> ELSE <<>>

VmUnregister(id) ==
    /\ ncalls < work.calls
    /\ LET vs1 == UnregisterModel(Vs, info, id)
       IN  /\ lmOrder' = vs1.order
           /\ lmRef' = vs1.ref
           /\ eng' = vs1.eng
    /\ vmOut' = [VmOut("unregister", 0, UnloadCalls(Vs, info, id), FALSE, 0)
                 EXCEPT !.id = id]
    /\ ncalls' = ncalls + 1
    /\ UNCHANGED <<call, pc, cur, res, lockHolder, lockQ, registry, info, active,
                   disk, xthr, lthr, ithr, local, now, seen, work, hist>>

VmEvict(required) ==
    /\ ncalls < work.calls
    /\ LET ev == EvictLru(Vs, info, required)
       IN  /\ lmOrder' = ev.vs.order
           /\ lmRef' = ev.vs.ref
           /\ eng' = ev.vs.eng
           /\ vmOut' = VmOut("evict", required,
                             EvictReleased(Vs, info,
                                           SortedModels(lmOrder, LastUsedOf(Vs, info)),
                                           required),
                             ev.raised,
                             IF ev.raised THEN AvailableMB(ev.vs.eng) ELSE 0)
    /\ ncalls' = ncalls + 1
    /\ UNCHANGED <<call, pc, cur, res, lockHolder, lockQ, registry, info, active,
                   disk, xthr, lthr, ithr, local, now, seen, work, hist>>

VmUpdate(id) ==
    /\ ncalls < work.calls
    /\ \E t \in TimeChoices :
         /\ now' = t
         /\ info' = UpdateAccessTime(Vs, info, id, t)
    /\ vmOut' = [VmOut("update", 0, <<>>, FALSE, 0) EXCEPT !.id = id]
    /\ ncalls' = ncalls + 1
    /\ UNCHANGED <<call, pc, cur, res, lockHolder, lockQ, registry, lmOrder, lmRef, eng,
                   active, disk, xthr, lthr, ithr, local, seen, work, hist>>

VmPurge ==
    /\ ncalls < work.calls
    /\ LET vs1 == VramPurgeAll(Vs, info)
       IN  /\ lmOrder' = vs1.order
           /\ lmRef' = vs1.ref
           /\ eng' = vs1.eng
    /\ vmOut' = VmOut("purge", 0, <<>>, FALSE, 0)
    /\ ncalls' = ncalls + 1
    /\ UNCHANGED <<call, pc, cur, res, lockHolder, lockQ, registry, info, active,
                   disk, xthr, lthr, ithr, local, now, seen, work, hist>>

NextVram ==
    \/ \E r \in Calls : VmRegister(r)
    \/ \E id \in Ids : VmUnregister(id)
    \/ \E required \in VmRequired : VmEvict(required)
    \/ \E id \in Ids : VmUpdate(id)
    \/ VmPurge

SpecVram == InitVram /\ [][NextVram]_vars

\* ------------------------------------------- DownloadManager's directory names
\* The cache directory on its own: identifiers are strings over three
\* characters, a directory is named by _model_disk_path, and
\* list_cached_models turns each directory name back into an identifier.

\* longest identifier
MaxLen == 3

PathChars == {"o", "/", "-"}

PathIds == UNION {[1..n -> PathChars] : n \in 1..MaxLen}

\* model_id.replace("/", "--")
RECURSIVE ModelDiskPath(_)
ModelDiskPath(id) ==
    IF id = <<>> THEN <<>>
    ELSE (IF Head(id) = "/" THEN <<"-", "-">> ELSE <<Head(id)>>) \o ModelDiskPath(Tail(id))

\* entry.name.replace("--", "/"): occurrences are taken from the left and do
\* not overlap
RECURSIVE CachedModelId(_)
CachedModelId(name) ==
    IF name = <<>> THEN <<>>
    ELSE IF Len(name) >= 2 /\ name[1] = "-" /\ name[2] = "-"
         THEN <<"/">> \o CachedModelId(SubSeq(name, 3, Len(name)))
         ELSE <<Head(name)>> \o CachedModelId(Tail(name))

PathNames == {ModelDiskPath(id) : id \in PathIds}

\* is_cached, on identifiers that are strings
IsCachedPath(id) == disk[ModelDiskPath(id)] # "none"

\* the model_id values list_cached_models returns
ListCachedIds == {CachedModelId(name) : name \in {n \in PathNames : disk[n] # "none"}}

\* the source of the artifacts is taken to refuse an identifier that has "--"
\* in it, so that no directory comes from such an identifier
RemoteAccepts(id) == \A i \in 1..(Len(id) - 1) : ~(id[i] = "-" /\ id[i + 1] = "-")

InitPath ==
    /\ disk = [n \in PathNames |-> "none"]
    /\ seen = {}
    /\ ncalls = 0
    /\ work = [calls |-> MaxCalls, flight |-> 0, ids |-> {}, kinds |-> {}, ops |-> {},
               act |-> 0]
    /\ call = [c \in Calls |-> NoCall]
    /\ pc = [c \in Calls |-> "idle"]
    /\ cur = 0
    /\ res = [c \in Calls |-> "none"]
    /\ lockHolder = 0
    /\ lockQ = <<>>
    /\ registry = [id \in Ids |-> 0]
    /\ info = [c \in Calls |-> NoInfo]
    /\ lmOrder = <<>>
    /\ lmRef = [id \in Ids |-> 0]
    /\ eng = [c \in Calls |-> NoEngine]
    /\ active = {}
    /\ xthr = [c \in Calls |-> "none"]
    /\ lthr = [c \in Calls |-> "none"]
    /\ ithr = [c \in Calls |-> "none"]
    /\ local = [c \in Calls |-> NoLocal]
    /\ now = 0
    /\ hist = [c \in Calls |-> NoHist]
    /\ vmOut = NoOut

\* download(id) finds the directory and returns its path at once; seen holds
\* the identifiers download has returned a path for
PathCacheHit(id) ==
    /\ ncalls < work.calls
    /\ IsCachedPath(id)
    /\ seen' = seen \cup {id}
    /\ ncalls' = ncalls + 1
    /\ UNCHANGED <<call, pc, cur, res, lockHolder, lockQ, registry, info, lmOrder, lmRef,
                   eng, active, disk, xthr, lthr, ithr, local, now, work, hist, vmOut>>

\* download(id) transfers the artifact into the directory of id
PathFetchOk(id) ==
    /\ ncalls < work.calls
    /\ ~IsCachedPath(id)
    /\ RemoteAccepts(id)
    /\ disk' = [disk EXCEPT ![ModelDiskPath(id)] = "complete"]
    /\ seen' = seen \cup {id}
    /\ ncalls' = ncalls + 1
    /\ UNCHANGED <<call, pc, cur, res, lockHolder, lockQ, registry, info, lmOrder, lmRef,
                   eng, active, xthr, lthr, ithr, local, now, work, hist, vmOut>>

\* download(id) fails with DownloadError before anything is written
PathFetchFail(id) ==
    /\ ncalls < work.calls
    /\ ~IsCachedPath(id)
    /\ ncalls' = ncalls + 1
    /\ UNCHANGED <<call, pc, cur, res, lockHolder, lockQ, registry, info, lmOrder, lmRef,
                   eng, active, disk, xthr, lthr, ithr, local, now, seen, work, hist, vmOut>>

NextPath ==
    \/ \E id \in PathIds : PathCacheHit(id)
    \/ \E id \in PathIds : PathFetchOk(id)
    \/ \E id \in PathIds : PathFetchFail(id)

SpecPath == InitPath /\ [][NextPath]_vars

\* ================================================================= claims
Tracked == {id \in Ids : lmRef[id] # 0}

\* the state the registry shows for an identifier
StateOf(reg, inf, id) == IF reg[id] = 0 THEN "not_present" ELSE inf[reg[id]].state

\* C1: at most one transfer of an identifier is executing at any time; of the
\* calls that are inside download() of one identifier at the same time at most
\* one invokes a transfer; and a caller waits only on a transfer that exists.
C1_OneTransfer ==
    /\ \A id \in Ids :
         Cardinality({c \in Calls : xthr[c] # "none" /\ call[c].id = id}) <= 1
    /\ \A c \in Calls : ~(hist[c].xfer /\ hist[c].peerXfer)
    /\ \A d \in Calls :
         (pc[d] = "dl_sleep" /\ call[d].id \in active)
         => \E c \in Calls : pc[c] = "dl_exec" /\ call[c].id = call[d].id

\* C1 witness: a call entered download() while another call's transfer of the
\* same identifier was in flight and came back without a transfer of its own
C1_Witness ==
    \E d \in Calls :
      /\ hist[d].peerXfer
      /\ ~hist[d].xfer
      /\ pc[d] \in {"wait2", "block2", "loading", "done"}

\* C2: a request never starts engine.load for an identifier whose record a
\* concurrent request has brought to LOADED in the meantime.
C2_LoadAtMostOnce ==
    [][\A c \in Calls :
         (pc[c] = "block2" /\ pc'[c] = "loading")
         => StateOf(registry, info, call[c].id) # "loaded"]_vars

\* C3: when evict_lru (run by the second block of load_model) drops an
\* identifier from the tracked set, the identifier's record is ON_DISK afterwards.
C3_EvictedIsOnDisk ==
    [][\A c \in Calls, id \in Ids :
         (cur = c /\ pc[c] = "block2" /\ lmRef[id] # 0 /\ lmRef'[id] = 0)
         => StateOf(registry', info', id) = "on_disk"]_vars

\* C4: the registry lock is free whenever an engine.load is executing.
C4_LockFreeDuringLoad ==
    \A c \in Calls : lthr[c] = "running" => lockHolder = 0

\* C5: a caller that waited for an in-flight transfer returns a location only
\* if the identifier is present on disk when the wait ends.
C5_WaiterSeesPresence ==
    [][\A c \in Calls :
         (pc[c] = "dl_sleep" /\ pc'[c] # "dl_sleep") => IsCached(call[c].id)]_vars

\* C6: register_model is never invoked for an identifier that is tracked.
C6_NeverRegisteredTwice ==
    [][\A c \in Calls :
         (pc[c] = "loading" /\ pc'[c] = "inferring") => call[c].id \notin Tracked]_vars

\* C7: a registry record has an engine_instance if and only if it is LOADED.
C7_HandleIffLoaded ==
    \A id \in Ids :
      registry[id] # 0
      => (info[registry[id]].engine_instance # 0 <=> info[registry[id]].state = "loaded")

\* C8: whenever the registry lock is free, the tracked identifiers are the
\* identifiers whose registry record is LOADED.
C8_TrackedIsLoaded ==
    lockHolder = 0
    => Tracked = {id \in Ids : StateOf(registry, info, id) = "loaded"}

\* the engine of the identifier's record, if it has one, is unloaded after the step
ReleasedAfter(id) ==
    LET e == info[registry[id]].engine_instance
    IN  e = 0 \/ ~eng'[e].loaded

\* C9: every change of an identifier's record state is a transition of the
\* state machine; LOADED is left only with the engine released (to ON_DISK, or
\* to DOWNLOADING when a reload or a new attempt starts at once), and a record
\* disappears only in purge_all.
C9_StateMachine ==
    [][\A id \in Ids :
         LET s == StateOf(registry, info, id)
             t == StateOf(registry', info', id)
         IN  \/ s = t
             \/ <<s, t>> \in {<<"not_present", "downloading">>,
                              <<"downloading", "on_disk">>,
                              <<"on_disk", "loaded">>,
                              <<"downloading", "failed">>,
                              <<"on_disk", "failed">>,
                              <<"failed", "downloading">>,
                              <<"on_disk", "downloading">>}
             \/ s = "loaded" /\ t \in {"on_disk", "downloading"} /\ ReleasedAfter(id)
             \/ t = "not_present" /\ cur # 0 /\ pc[cur] = "pg_block"]_vars

\* C10: a forced reload of a LOADED model starts its engine.load with the model
\* untracked and the old engine unloaded, and if that load fails the model is
\* untracked and its record FAILED.
C10_ForcedReload ==
    \A c \in Calls :
      hist[c].forced
      => /\ pc[c] = "loading"
            => (call[c].id \notin Tracked
                /\ (hist[c].old # 0 => ~eng[hist[c].old].loaded))
         /\ (pc[c] = "done" /\ res[c] \in {"LoadError", "NotImplementedError"})
            => (call[c].id \notin Tracked
                /\ StateOf(registry, info, call[c].id) = "failed")

\* C11: when load_model ends with VRAMExhaustedError, the requested record is
\* ON_DISK, no engine.load was started for the request and its engine holds
\* nothing, no model was added to the tracked set, and every model the attempt
\* evicted is untracked with its engine unloaded.
C11_CapacityErrorLeavesOnDisk ==
    [][\A c \in Calls :
         (res[c] = "none" /\ res'[c] = "VRAMExhaustedError")
         => /\ StateOf(registry', info', call[c].id) = "on_disk"
            /\ lthr'[c] = "none"
            /\ ~eng'[c].loaded
            /\ \A id \in Ids :
                 /\ lmRef'[id] # 0 => lmRef'[id] = lmRef[id]
                 /\ (lmRef[id] # 0 /\ lmRef'[id] = 0)
                    => (info[lmRef[id]].engine_instance # 0
                        => ~eng'[info[lmRef[id]].engine_instance].loaded)]_vars

\* C11 witness: a request has failed with VRAMExhaustedError, its record is
\* ON_DISK, and another model, evicted by the attempt, is untracked and unloaded
C11_Witness ==
    \E c \in Calls, id \in Ids :
      /\ pc[c] = "done"
      /\ res[c] = "VRAMExhaustedError"
      /\ StateOf(registry, info, call[c].id) = "on_disk"
      /\ id # call[c].id
      /\ registry[id] # 0
      /\ lmRef[id] = 0
      /\ info[registry[id]].engine_instance # 0
      /\ ~eng[info[registry[id]].engine_instance].loaded

\* C12: when the transfer fails during load_model, the record of the identifier
\* is not left in DOWNLOADING.
C12_FetchFailureNotDownloading ==
    \A c \in Calls :
      (pc[c] = "done" /\ call[c].op = "infer" /\ res[c] = "DownloadError")
      => StateOf(registry, info, call[c].id) # "downloading"

\* C13: when engine.load fails, the step that ends load_model leaves the record
\* of the identifier in the registry with state FAILED, reports the error of
\* the load to the caller, and adds nothing to the tracked set.
C13_LoadFailureMarksFailed ==
    [][\A c \in Calls :
         (pc[c] = "loading" /\ lthr[c] = "fail" /\ pc'[c] # "loading")
         => /\ res'[c] \in {"LoadError", "NotImplementedError"}
            /\ registry' = registry
            /\ registry'[call[c].id] # 0
            /\ StateOf(registry', info', call[c].id) = "failed"
            /\ lmRef' = lmRef
            /\ lmOrder' = lmOrder]_vars

\* C13 witness: a load has failed; the record is FAILED and the model untracked
C13_Witness ==
    \E c \in Calls :
      /\ pc[c] = "done"
      /\ res[c] = "LoadError"
      /\ StateOf(registry, info, call[c].id) = "failed"
      /\ call[c].id \notin Tracked

\* C14: a request for the video kind starts no transfer and no engine.load.
C14_VideoFailsAtOnce ==
    \A c \in Calls :
      call[c].kind = "video" => (xthr[c] = "none" /\ lthr[c] = "none")

\* the identifiers still tracked when evict_lru makes its i-th release
TrackedAt(i) ==
    {id \in Ids : vmOut.before.ref[id] # 0}
    \ {vmOut.released[j] : j \in 1..(i - 1)}

\* the engines as they are when evict_lru makes its i-th release
EnginesAt(i) == UnregisterEach(vmOut.before, info, SubSeq(vmOut.released, 1, i - 1)).eng

\* C15: evict_lru releases tracked models in ascending last_used order and stops
\* as soon as can_load_model(required) holds: each release takes a model whose
\* last_used no tracked model undercuts, is made only while can_load_model is
\* false, and nothing but the released models leaves the tracked set.
C15_EvictsInLruOrder ==
    vmOut.op = "evict"
    => /\ \A i \in 1..Len(vmOut.released) :
            /\ vmOut.released[i] \in TrackedAt(i)
            /\ \A id \in TrackedAt(i) :
                 vmOut.lastUsed[vmOut.released[i]] <= vmOut.lastUsed[id]
            /\ ~CanLoadModel(EnginesAt(i), vmOut.required)
       /\ Tracked = TrackedAt(Len(vmOut.released) + 1)
       /\ \A i \in 1..Len(vmOut.released) :
            LET r == vmOut.before.ref[vmOut.released[i]]
            IN  info[r].engine_instance # 0 => ~eng[info[r].engine_instance].loaded

\* C15 witness: of two tracked models evict_lru released only the one used
\* longer ago, which was the later one in the dict
C15_Witness ==
    /\ vmOut.op = "evict"
    /\ Len(vmOut.before.order) = 2
    /\ Len(vmOut.released) = 1
    /\ vmOut.released[1] = vmOut.before.order[2]
    /\ vmOut.lastUsed[vmOut.before.order[2]] < vmOut.lastUsed[vmOut.before.order[1]]
    /\ ~vmOut.raised

\* C16: evict_lru raises VRAMExhaustedError exactly when can_load_model(required)
\* is still false after its loop; then no model is tracked any more and the
\* available amount of the error is limit - usage, at least 0 (in whole MB).
C16_ExhaustedAfterAllEvicted ==
    vmOut.op = "evict"
    => LET d == EffectiveLimitTimesDen - GetVramUsageMB(eng) * ThresholdDen
       IN  /\ vmOut.raised <=> ~CanLoadModel(eng, vmOut.required)
           /\ vmOut.raised
              => /\ Tracked = {}
                 /\ vmOut.available >= 0
                 /\ IF d <= 0 THEN vmOut.available = 0
                    ELSE /\ vmOut.available * ThresholdDen <= d
                         /\ d < (vmOut.available + 1) * ThresholdDen

\* C16 witness: evict_lru released every tracked model and still raised
C16_Witness ==
    /\ vmOut.op = "evict"
    /\ vmOut.raised
    /\ Len(vmOut.released) >= 1
    /\ Len(vmOut.released) = Len(vmOut.before.order)
    /\ vmOut.available > 0

\* C17: when purge_all has completed, the VRAMManager tracks no model and
\* get_all_model_status returns nothing; stated here for the least the claim
\* asks: no entry for an identifier the registry held when purge_all ran (an
\* artifact in the cache that the registry never held is left out of account).
C17_PurgeEmptiesStatus ==
    [][\A c \in Calls :
         (pc[c] = "pg_block" /\ pc'[c] = "done")
         => /\ Tracked' = {}
            /\ lmOrder' = <<>>
            /\ \A s \in GetAllModelStatus' : registry[s.model_id] = 0]_vars

\* C18: when purge_all has completed, no engine is loaded.
C18_PurgeUnloadsEveryEngine ==
    \A c \in Calls :
      (call[c].op = "purge" /\ pc[c] = "done")
      => \A k \in Calls : ~eng[k].loaded

\* C19: when engine.infer fails, the step that ends infer reports the error and
\* changes nothing: the registry, every record (state, engine_instance,
\* last_used), the tracked dict and the engines are as they were.
C19_InferFailureChangesNothing ==
    [][\A c \in Calls :
         (pc[c] = "inferring" /\ ithr[c] = "fail" /\ pc'[c] # "inferring")
         => /\ res'[c] = "InferError"
            /\ registry' = registry
            /\ info' = info
            /\ lmRef' = lmRef
            /\ lmOrder' = lmOrder
            /\ eng' = eng]_vars

\* C19 witness: an inference has failed and the record is LOADED, tracked, with
\* the engine the inference ran on still loaded
C19_Witness ==
    \E c \in Calls :
      /\ pc[c] = "done"
      /\ res[c] = "InferError"
      /\ StateOf(registry, info, call[c].id) = "loaded"
      /\ lmRef[call[c].id] = registry[call[c].id]
      /\ info[registry[call[c].id]].engine_instance = local[c].engine
      /\ eng[local[c].engine].loaded

\* get_all_model_status lists the identifier as LOADED with a footprint above 0
ListedLoaded(id) ==
    \E s \in GetAllModelStatus : s.model_id = id /\ s.state = "loaded" /\ s.vram_mb > 0

C21_ListsOnlyRequested ==
    \A s \in GetAllModelStatus : s.model_id \in seen

\* C21, restated: get_all_model_status lists only identifiers that a call has
\* requested or whose directory is in the cache
C21_ListsOnlyRequestedOrCached ==
    \A s \in GetAllModelStatus : s.model_id \in seen \/ disk[s.model_id] # "none"

\* a requested identifier is listed from the registry while another one, never
\* requested and not in the cache, is not listed
C21_Witness ==
    /\ \E s \in GetAllModelStatus : s.model_id \in seen /\ registry[s.model_id] # 0
    /\ \E id \in Ids : /\ id \notin seen
                       /\ disk[id] = "none"
                       /\ \A s \in GetAllModelStatus : s.model_id # id

\* C22: a call of load_model or infer that fails raises DownloadError,
\* VRAMExhaustedError, a load error, an inference error or the unsupported-kind
\* error, and nothing else, also when purge_all or another call ran meanwhile
C22_OnlyTaxonomyErrors ==
    \A c \in Calls :
        res[c] \in {"none", "ok", "DownloadError", "VRAMExhaustedError", "LoadError",
                    "InferError", "NotImplementedError"}

\* C23: the registry lock is not held by a call while it is inside
\* DownloadManager.download, so while a transfer for one identifier is in flight
\* a load_model for another identifier can take the lock and go through its steps
C23_LockFreeDuringDownload ==
    \A c \in Calls : pc[c] \in {"dl_enter", "dl_sleep", "dl_exec"} => lockHolder # c

\* a transfer for one identifier is running while a load_model for another
\* identifier holds the lock and has reached its engine load
C23_Witness ==
    \E c, d \in Calls :
        /\ call[c].op = "infer" /\ call[d].op = "infer"
        /\ call[c].id # call[d].id
        /\ pc[c] = "dl_exec" /\ xthr[c] = "running"
        /\ lockHolder = d /\ pc[d] = "loading"

\* C24: while a transfer for an identifier is queued or running, a call of
\* download for that identifier does not return a path, whatever part of the
\* artifact is already on disk
C24_NoPathBeforeTransferEnds ==
    [][\A c \in Calls :
          (pc[c] = "dl_enter" /\ pc'[c] \notin {"dl_enter", "dl_sleep", "dl_exec"})
          => ~ \E d \in Calls : /\ call[d].id = call[c].id
                                /\ xthr[d] \in {"queued", "running"}]_vars

\* C25: once the registry holds a record of an identifier with a task type,
\* no later load_model for that identifier makes the registry hold another
\* task type for it
C25_KindNeverChanges ==
    [][\A id \in Ids :
          (registry[id] # 0 /\ registry'[id] # 0)
          => info'[registry'[id]].task_type = info[registry[id]].task_type]_vars

\* C26: when the registry holds a LOADED record of the identifier and
\* force_reload is false, the first block of load_model refreshes last_used of
\* the record and of the tracker's record and returns that same record; it
\* starts no download, eviction or load and changes no record's state, nor the
\* registry, the tracked models or any engine
C26_FastPathFrame ==
    [][\A c \in Calls :
          (/\ pc[c] = "block1" /\ cur = c /\ pc'[c] # "block1"
           /\ registry[call[c].id] # 0
           /\ info[registry[call[c].id]].state = "loaded"
           /\ ~ call[c].force)
          => LET id == call[c].id
                 r == registry[id]
             IN  /\ local'[c].info = r
                 /\ pc'[c] = "inferring"
                 /\ info'[r].last_used = now'
                 /\ lmRef[id] # 0 => info'[lmRef[id]].last_used = now'
                 /\ \A k \in Calls :
                       info'[k] = [info[k] EXCEPT !.last_used = info'[k].last_used]
                 /\ registry' = registry
                 /\ lmOrder' = lmOrder /\ lmRef' = lmRef /\ eng' = eng
                 /\ xthr' = xthr /\ lthr' = lthr /\ active' = active
                 /\ disk' = disk /\ res' = res]_vars

\* a call is at its inference with an engine another call created: it came
\* through the fast path
C26_Witness ==
    \E c \in Calls :
        /\ pc[c] = "inferring"
        /\ local[c].info # c
        /\ local[c].engine # c
        /\ info[local[c].info].state = "loaded"
        /\ info[local[c].info].last_used = now

\* C27: after unregister_model(id) or an eviction of a tracked model, the
\* record of that model has no engine_instance any more
C27_HandleClearedOnRelease ==
    vmOut.op \in {"unregister", "evict"}
    => \A id \in Ids :
         (vmOut.before.ref[id] # 0 /\ lmRef[id] = 0)
         => info[vmOut.before.ref[id]].engine_instance = 0

\* C28: in every reachable state a record of the registry whose state is not
\* LOADED has vram_mb = 0
C28_FootprintOnlyWhenLoaded ==
    \A id \in Ids :
        (registry[id] # 0 /\ info[registry[id]].state # "loaded")
        => info[registry[id]].vram_mb = 0

\* C29: when tracked models have equal last_used, evict_lru releases the one
\* with the smaller identifier first ("a" before "b"), whatever the order of
\* registration
C29_TiesByIdentifier ==
    vmOut.op = "evict"
    => \A i \in 1..Len(vmOut.released) :
         \A id \in TrackedAt(i) :
           vmOut.lastUsed[id] = vmOut.lastUsed[vmOut.released[i]]
           => (vmOut.released[i] = "a" \/ id = "b")

\* C30: _active_downloads holds an identifier exactly while a call of download
\* awaits its transfer: the call adds it before handing the transfer to the
\* executor and discards it when the transfer has ended, whether it returned or
\* raised, so no identifier stays in the set after its transfer is over
C30_ActiveWhileTransfer ==
    /\ active = {call[c].id : c \in {d \in Calls : pc[d] = "dl_exec"}}
    /\ \A c \in Calls : xthr[c] # "none" <=> pc[c] = "dl_exec"

\* a transfer has failed, its call has ended with DownloadError and the
\* identifier is no longer in the set
C30_Witness ==
    \E c \in Calls :
        /\ pc[c] = "done"
        /\ res[c] = "DownloadError"
        /\ call[c].id \notin active

\* C31: unregister_model is idempotent: for a tracked identifier it invokes
\* the unload of that model's engine exactly once and removes the identifier
\* from the tracked models; for an untracked identifier (a second
\* unregister_model of the same one included) it invokes no unload and leaves
\* the tracked models and every engine as they were
C31_ReleaseIdempotent ==
    vmOut.op = "unregister"
    => LET id == vmOut.id
           r == vmOut.before.ref[id]
       IN  IF r # 0
           THEN /\ vmOut.released = <<id>>
                /\ ~eng[info[r].engine_instance].loaded
                /\ \A k \in Calls : k # info[r].engine_instance => eng[k] = vmOut.before.eng[k]
                /\ lmRef = [vmOut.before.ref EXCEPT ![id] = 0]
                /\ lmOrder = RemoveKey(vmOut.before.order, id)
                /\ id \notin Tracked
           ELSE /\ vmOut.released = <<>>
                /\ eng = vmOut.before.eng
                /\ lmRef = vmOut.before.ref
                /\ lmOrder = vmOut.before.order

\* the second unregister_model of an identifier found it untracked, after the
\* first one had released it
C31_Witness ==
    /\ vmOut.op = "unregister"
    /\ vmOut.before.ref[vmOut.id] = 0
    /\ vmOut.released = <<>>
    /\ ncalls = 2
    /\ \E k \in Calls : /\ info[k].model_id = vmOut.id
                        /\ ~eng[k].loaded
                        /\ info[k].engine_instance = k
    /\ Tracked # {}

\* C32: update_access_time(id) sets last_used of the tracked record of id to
\* the current time, which is not below the value it had, and changes no other
\* record; for an untracked identifier it changes nothing
C32_UpdateAccessFrame ==
    [][vmOut'.op = "update" /\ ncalls' = ncalls + 1
       => LET id == vmOut'.id
              r == lmRef[id]
          IN  /\ IF r # 0
                 THEN /\ info' = [info EXCEPT ![r].last_used = now']
                      /\ info'[r].last_used >= info[r].last_used
                 ELSE info' = info
              /\ lmRef' = lmRef /\ lmOrder' = lmOrder /\ eng' = eng]_vars

\* update_access_time raised last_used of one of two tracked models and left
\* the other model's last_used as it was
C32_Witness ==
    /\ vmOut.op = "update"
    /\ lmRef[vmOut.id] # 0
    /\ info[lmRef[vmOut.id]].last_used = now
    /\ vmOut.lastUsed[vmOut.id] < now
    /\ \E other \in Tracked : /\ other # vmOut.id
                              /\ info[lmRef[other]].last_used = vmOut.lastUsed[other]
                              /\ info[lmRef[other]].last_used < now

\* C33: the status has an entry for each identifier that is cached and has no
\* record in the registry (no record exists here), whatever its characters are
C33_ListsEveryCachedId ==
    \A id \in PathIds : IsCachedPath(id) => id \in ListCachedIds

\* C33, for identifiers that are their own directory names: the status lists
\* every record of the registry once, with the record's
\* fields, and one entry with state ON_DISK, vram_mb 0 and no last_used for
\* each identifier that is cached and has no record in the registry; no
\* identifier is listed twice and no other identifier is listed
C33_StatusMerge ==
    \A id \in Ids :
        LET entries == {s \in GetModelsStatus : s.model_id = id}
        IN  /\ Cardinality(entries) <= 1
            /\ registry[id] # 0
               => entries = {[model_id |-> id,
                              task_type |-> info[registry[id]].task_type,
                              state |-> info[registry[id]].state,
                              vram_mb |-> info[registry[id]].vram_mb,
                              last_used |-> info[registry[id]].last_used]}
            /\ (registry[id] = 0 /\ IsCached(id))
               => entries = {[model_id |-> id, task_type |-> "absent",
                              state |-> "on_disk", vram_mb |-> 0, last_used |-> -1]}
            /\ (registry[id] = 0 /\ ~IsCached(id)) => entries = {}

\* one identifier is listed from its LOADED record although its directory is
\* in the cache too, and another one is listed from the cache alone
C33_Witness ==
    \E id, other \in Ids :
        /\ registry[id] # 0 /\ IsCached(id)
        /\ info[registry[id]].state = "loaded" /\ info[registry[id]].vram_mb > 0
        /\ registry[other] = 0 /\ IsCached(other)
        /\ Cardinality(GetModelsStatus) = 2

\* C34: directory names and identifiers round-trip: list_cached_models reports
\* exactly the identifiers download has returned a path for, and two distinct
\* identifiers never have the same directory
C34_NamesRoundTrip ==
    /\ ListCachedIds = seen
    /\ \A id, other \in seen : id # other => ModelDiskPath(id) # ModelDiskPath(other)

\* C35: no step unloads an engine (eviction, the release of a forced reload,
\* purge_all) while a worker thread runs an inference call on that engine
C35_NoUnloadDuringInference ==
    [][\A c \in Calls :
          (/\ pc[c] = "inferring"
           /\ ithr[c] \in {"running", "alloc"}
           /\ local[c].engine # 0
           /\ eng[local[c].engine].loaded)
          => eng'[local[c].engine].loaded]_vars

\* C36: every record load_model returns is ready: when load_model returns it,
\* from the fast path too, the record's engine is loaded and the record is the
\* tracked one of its identifier
C36_ReturnedRecordReady ==
    [][\A c \in Calls :
          (pc[c] \in {"block1", "loading"} /\ pc'[c] = "inferring")
          => /\ local'[c].engine # 0
             /\ eng'[local'[c].engine].loaded
             /\ lmRef'[call[c].id] = local'[c].info]_vars

\* C37: whenever the registry lock is free, an engine is loaded exactly if it
\* is the engine_instance of a tracked record: no loaded engine is orphaned and
\* no tracked record holds an unloaded engine
C37_LoadedIffTracked ==
    lockHolder = 0
    => \A k \in Calls :
         eng[k].loaded <=> \E id \in Ids : lmRef[id] # 0 /\ info[lmRef[id]].engine_instance = k

\* C38: load_model(id, kind) never returns a record whose task type differs
\* from kind, also on the fast path for an identifier LOADED under another kind
C38_ReturnedKindAsRequested ==
    [][\A c \in Calls :
          (pc[c] \in {"block1", "loading"} /\ pc'[c] = "inferring")
          => info'[local'[c].info].task_type = call[c].kind]_vars

\* C39: under fair scheduling, with transfers, loads and inference calls that
\* end, every call of load_model, infer, fetch_model and purge_all that has been
\* issued returns or raises: no call waits for the lock for ever and every call
\* that waits for a transfer in flight is released
C39_EveryCallReturns ==
    \A c \in Calls : (pc[c] \notin {"idle", "gone"}) ~> (pc[c] \in {"done", "gone"})

\* one call waits for the transfer another call has handed to the executor
C39_Witness ==
    \E c, d \in Calls :
        /\ pc[c] = "dl_sleep"
        /\ pc[d] = "dl_exec" /\ xthr[d] = "running"
        /\ call[c].id = call[d].id

\* C40: load_model starts engine.load only when can_load_model(required) holds
\* at that moment, at once or after evict_lru has returned without error, and
\* no other load is running or waiting to be registered when it starts
C40_LoadOnlyWhenAdmitted ==
    [][\A c \in Calls :
          (pc[c] = "block2" /\ pc'[c] = "loading")
          => /\ (GetVramUsageMB(eng') + RequiredMB) * ThresholdDen <= EffectiveLimitTimesDen
             /\ lthr'[c] = "running"
             /\ \A d \in Calls \ {c} : pc'[d] # "loading" /\ lthr'[d] = "none"
             /\ lockHolder' = c]_vars

\* a load starts after evict_lru has released the model of another identifier
C40_Witness ==
    \E c, k \in Calls :
        /\ pc[c] = "loading" /\ lthr[c] = "running"
        /\ k # c
        /\ info[k].model_id \notin {"", call[c].id}
        /\ registry[info[k].model_id] = k
        /\ lmRef[info[k].model_id] = 0
        /\ info[k].engine_instance # 0
        /\ ~eng[info[k].engine_instance].loaded

====
